---- MODULE Spec2Model ----
(***************************************************************************)
(* A model of the meeting-transcriber core (jonathanputra23/meetingNotes): *)
(* the segment merger _merge_speaker_segments and the VTT caption parser   *)
(* _parse_timestamped_output of src/src/speech_to_text/transcriber.py, and *)
(* SpeakerDiarizer.process_audio and assign_speaker_names of               *)
(* src/src/speaker_diarization/diarizer.py, AudioProcessor of              *)
(* src/src/audio_processing/processor.py, and the threads and handlers of  *)
(* MeetingTranscriberApp of src/src/gui/main_gui.py.                       *)
(*                                                                         *)
(* Time values are integers counting milliseconds: the code holds floats   *)
(* of seconds built as int(..)*3600 + int(..)*60 + int(..) + int(..)/1000. *)
(* Comparisons, differences and the overlap ratio follow the code's        *)
(* expressions on these integers; the rounding of binary floats is not     *)
(* modelled.                                                               *)
(***************************************************************************)
EXTENDS Integers, Sequences, FiniteSets, TLC

VARIABLES
    \* ---- _merge_speaker_segments (transcriber.py:153-187) ----
    whisper_segments,   \* argument: list of dicts start/end/text
    speaker_segments,   \* argument: list of dicts start/end/speaker
    merged,             \* local list of TranscriptSegment
    speaker_idx,        \* local cursor, 0-based as in the code
    seg_pos,            \* number of whisper segments the for loop has consumed
    mpc,                \* "loop", "returned" or "raised"
    \* ---- _parse_timestamped_output (transcriber.py:59-130) ----
    lines,              \* f.readlines(): the raw lines of the VTT file
    line_num,           \* number of lines the for loop has consumed
    state,              \* "find_timestamp" or "read_text"
    current_segment,    \* dict, keys among start/end/text
    text_buffer,        \* list of stripped lines
    segments,           \* list of emitted segment dicts
    ppc,                \* "idle", "loop", "returned" or "raised"
    \* ---- SpeakerDiarizer.process_audio (diarizer.py:24-166) ----
    n_speakers,         \* self.n_speakers
    adapter,            \* what preprocess_wav and encoder.embed_utterance will do
    wav_splits,         \* local: [shape, data], shape "pairs" (n x 2 array) or "scalars" (1-D)
    cont_embeds,        \* local: the embedding vectors, one per window
    valid_embeds,       \* local: the vectors that are not all zero
    attempts,           \* the metrics AgglomerativeClustering was fitted with, in order
    labels_,            \* clustering.labels_, one label per valid embedding
    win_i,              \* the for loop's i: number of window indices consumed
    diar_segments,      \* local list segments
    diar_error,         \* the exception that left process_audio: [type, cause]
    dpc,                \* "idle", "preprocess", "embed", "unpack", "filter", "cosine",
                        \* "euclidean", "loop", "returned" or "raised"
    \* ---- SpeakerDiarizer.assign_speaker_names (diarizer.py:168-186) ----
    in_segments,        \* argument segments
    name_mapping,       \* argument name_mapping: a dict, or None
    once,               \* assign_speaker_names(segments, name_mapping)
    twice,              \* assign_speaker_names(once, name_mapping)
    rpc,                \* "idle", "start", "once" or "twice"
    \* ---- _parse_vtt_timestamp (transcriber.py:45-57) ----
    ts_str,             \* argument ts: the timestamp string
    ts_result,          \* what the call returned, or that it raised ValueError
    tpc,                \* "idle", "start" or "done"
    \* ---- AudioProcessor (processor.py:12-66) ----
    _audio,             \* self._audio
    _sample_rate,       \* self._sample_rate
    _speaker_segments,  \* self._speaker_segments
    loads,              \* number of load_audio calls made so far
    load_result,        \* how the last load_audio call ended
    got,                \* how the last get_speaker_segments call ended
    apc,                \* "idle" or "ready"
    \* ---- MeetingTranscriberApp (main_gui.py:25-153) ----
    file_path,          \* self.file_path (StringVar)
    transcribe_btn,     \* state of self.transcribe_btn: "disabled" or "normal"
    active_thread,      \* self.active_thread: None or a thread
    threads,            \* the threads created so far, each with the position it has reached
    after_queue,        \* callbacks handed to root.after(0, ...) and not yet run
    checks,             \* number of pending root.after(100, self.check_thread) timers
    dialog,             \* the last messagebox shown by start_transcription
    gpc                 \* "idle" or "mainloop"

mergeVars == <<whisper_segments, speaker_segments, merged, speaker_idx, seg_pos, mpc>>
parseVars == <<lines, line_num, state, current_segment, text_buffer, segments, ppc>>
diarVars == <<n_speakers, adapter, wav_splits, cont_embeds, valid_embeds, attempts,
              labels_, win_i, diar_segments, diar_error, dpc>>
relabelVars == <<in_segments, name_mapping, once, twice, rpc>>
stampVars == <<ts_str, ts_result, tpc>>
procVars == <<_audio, _sample_rate, _speaker_segments, loads, load_result, got, apc>>
guiVars == <<file_path, transcribe_btn, active_thread, threads, after_queue,
             checks, dialog, gpc>>
vars == <<whisper_segments, speaker_segments, merged, speaker_idx, seg_pos, mpc,
          lines, line_num, state, current_segment, text_buffer, segments, ppc,
          n_speakers, adapter, wav_splits, cont_embeds, valid_embeds, attempts,
          labels_, win_i, diar_segments, diar_error, dpc,
          in_segments, name_mapping, once, twice, rpc,
          ts_str, ts_result, tpc,
          _audio, _sample_rate, _speaker_segments, loads, load_result, got, apc,
          file_path, transcribe_btn, active_thread, threads, after_queue,
          checks, dialog, gpc>>

\* Python's None
None == <<>>

\* Python dicts are functions from keys to values; {} is the empty one
EmptyDict == [k \in {} |-> 0]

\* No exception
NoError == [type |-> "none", cause |-> "none", at |-> "none"]

\* The diarizer's variables while another function is under study
DiarIdle ==
    /\ n_speakers = 0
    /\ adapter = <<>>
    /\ wav_splits = <<>>
    /\ cont_embeds = <<>>
    /\ valid_embeds = <<>>
    /\ attempts = <<>>
    /\ labels_ = <<>>
    /\ win_i = 0
    /\ diar_segments = <<>>
    /\ diar_error = NoError
    /\ dpc = "idle"

\* The relabeling's variables while another function is under study
RelabelIdle ==
    /\ in_segments = <<>>
    /\ name_mapping = <<>>
    /\ once = <<>>
    /\ twice = <<>>
    /\ rpc = "idle"

\* The variables of _parse_vtt_timestamp called on its own, of AudioProcessor
\* and of the GUI while another function is under study
StampIdle ==
    /\ ts_str = <<>>
    /\ ts_result = <<>>
    /\ tpc = "idle"

ProcIdle ==
    /\ _audio = <<>>
    /\ _sample_rate = <<>>
    /\ _speaker_segments = <<>>
    /\ loads = 0
    /\ load_result = <<>>
    /\ got = <<>>
    /\ apc = "idle"

GuiIdle ==
    /\ file_path = <<>>
    /\ transcribe_btn = "disabled"
    /\ active_thread = <<>>
    /\ threads = <<>>
    /\ after_queue = <<>>
    /\ checks = 0
    /\ dialog = "none"
    /\ gpc = "idle"

\* ------------------------------------------------------------------------
\* Bounds of the model
\* ------------------------------------------------------------------------
MaxWhisper == 2
MaxSpeakers == 2
MaxLines == 4
MaxWindows == 3
MaxRelabel == 2
MaxOrderLines == 5
MaxLoads == 3
MaxStarts == 2
\* The cluster count of the one large input: the least n_speakers whose last
\* cluster label has three decimal digits
BigSpeakers == 101

\* Sequences over S of length at most n
SeqUpTo(S, n) == UNION {[1..k -> S] : k \in 0..n}

\* ------------------------------------------------------------------------
\* Inputs of the merger
\* ------------------------------------------------------------------------
\* Time points (ms) the merger's inputs are drawn from: 0 s, 4 s, 5 s, 10 s.
Times == {0, 4000, 5000, 10000}

\* The text of the k-th whisper segment and the label of the k-th speaker
\* segment: distinct per position, so that a reordering or a mix-up shows.
TextOf(k) == <<"text", k>>
LabelOf(k) == <<"SPEAKER", k>>

\* What the parser can hand over (validation at transcriber.py:110:
\* start >= 0 and end >= start), in any order.
WhisperTimes == {p \in Times \X Times : p[1] <= p[2]}
\* What process_audio emits (diarizer.py:158: only if start < end), in any order.
SpeakerTimes == {p \in Times \X Times : p[1] < p[2]}

WhisperInputs ==
    {[k \in DOMAIN ts |-> [start |-> ts[k][1], end |-> ts[k][2], text |-> TextOf(k)]] :
        ts \in SeqUpTo(WhisperTimes, MaxWhisper)}
SpeakerInputs ==
    {[k \in DOMAIN ts |-> [start |-> ts[k][1], end |-> ts[k][2], speaker |-> LabelOf(k)]] :
        ts \in SeqUpTo(SpeakerTimes, MaxSpeakers)}

Max(a, b) == IF a >= b THEN a ELSE b
Min(a, b) == IF a <= b THEN a ELSE b

\* ------------------------------------------------------------------------
\* _merge_speaker_segments
\* ------------------------------------------------------------------------
\* transcriber.py:164-166: while speaker_idx < len(..) and
\* speaker_segments[speaker_idx]['end'] <= seg['start']: speaker_idx += 1
\* (idx is 0-based; the TLA+ sequence is 1-based)
RECURSIVE AdvanceCursor(_, _, _)
RECURSIVE AdvanceCursorMutant(_, _, _)
RECURSIVE AdvanceCursorSkipMutant(_, _, _)
AdvanceCursorSkipMutant(spk, idx, seg) ==
    IF idx < Len(spk) /\ spk[idx + 1].end <= seg.end
    THEN AdvanceCursorSkipMutant(spk, idx + 1, seg)
    ELSE idx
AdvanceCursorOnceMutant(spk, idx, seg) ==
    IF idx < Len(spk) /\ spk[idx + 1].end <= seg.start THEN idx + 1 ELSE idx
AdvanceCursorMutant(spk, idx, seg) ==
    IF idx < Len(spk) /\ spk[idx + 1].start <= seg.start
    THEN AdvanceCursorMutant(spk, idx + 1, seg)
    ELSE idx
AdvanceCursor(spk, idx, seg) ==
    IF idx < Len(spk) /\ spk[idx + 1].end <= seg.start
    THEN AdvanceCursor(spk, idx + 1, seg)
    ELSE idx

\* transcriber.py:170-171
Overlaps(speaker_seg, seg) ==
    speaker_seg.start <= seg.end /\ speaker_seg.end >= seg.start

\* transcriber.py:172-174
OverlapDurationMutant(speaker_seg, seg) ==
    speaker_seg.end - speaker_seg.start
OverlapDuration(speaker_seg, seg) ==
    Min(seg.end, speaker_seg.end) - Max(seg.start, speaker_seg.start)

\* transcriber.py:175
SegDuration(seg) == seg.end - seg.start

\* transcriber.py:177: overlap_duration / seg_duration > 0.5, for a divisor
\* other than zero (a quotient q > 1/2 with the divisor's sign taken into account)
MajorityMutant(overlap_duration, seg_duration) ==
    IF seg_duration > 0
    THEN 2 * overlap_duration >= seg_duration
    ELSE 2 * overlap_duration <= seg_duration
Majority(overlap_duration, seg_duration) ==
    IF seg_duration > 0
    THEN 2 * overlap_duration > seg_duration
    ELSE 2 * overlap_duration < seg_duration

\* transcriber.py:177: the float division raises ZeroDivisionError when
\* seg_duration is 0.0; it is reached only inside both ifs (168, 170)
DivisionRaises(spk, idx, seg) ==
    /\ idx < Len(spk)
    /\ Overlaps(spk[idx + 1], seg)
    /\ SegDuration(seg) = 0

\* transcriber.py:163, 168-178: the speaker chosen for seg with the cursor at idx
RECURSIVE CurrentSpeakerScanMutant(_, _, _)
CurrentSpeakerScanMutant(spk, idx, seg) ==
    IF idx < Len(spk)
    THEN IF Overlaps(spk[idx + 1], seg)
            /\ Majority(OverlapDuration(spk[idx + 1], seg), SegDuration(seg))
         THEN spk[idx + 1].speaker
         ELSE CurrentSpeakerScanMutant(spk, idx + 1, seg)
    ELSE None
CurrentSpeakerMutant(spk, idx, seg) ==
    IF idx < Len(spk) /\ Overlaps(spk[idx + 1], seg)
    THEN spk[idx + 1].speaker
    ELSE None
CurrentSpeaker(spk, idx, seg) ==
    IF idx < Len(spk)
       /\ Overlaps(spk[idx + 1], seg)
       /\ Majority(OverlapDuration(spk[idx + 1], seg), SegDuration(seg))
    THEN spk[idx + 1].speaker
    ELSE None

\* transcriber.py:180-185
MakeTranscriptSegmentMutant(seg, current_speaker) ==
    [start |-> seg.start, end |-> seg.end, text |-> TextOf(1), speaker |-> current_speaker]
MakeTranscriptSegment(seg, current_speaker) ==
    [start |-> seg.start, end |-> seg.end, text |-> seg.text, speaker |-> current_speaker]

\* One iteration of the for loop, transcriber.py:161-185
MergeIter ==
    /\ mpc = "loop"
    /\ seg_pos < Len(whisper_segments)
    /\ LET seg == whisper_segments[seg_pos + 1]
           idx == AdvanceCursor(speaker_segments, speaker_idx, seg)
       IN  /\ speaker_idx' = idx
           /\ IF DivisionRaises(speaker_segments, idx, seg)
              THEN /\ mpc' = "raised"
                   /\ UNCHANGED <<merged, seg_pos>>
              ELSE /\ merged' = Append(merged,
                           MakeTranscriptSegment(seg, CurrentSpeaker(speaker_segments, idx, seg)))
                   /\ seg_pos' = seg_pos + 1
                   /\ mpc' = "loop"
    /\ UNCHANGED <<whisper_segments, speaker_segments>>
    /\ UNCHANGED <<parseVars, diarVars, relabelVars, stampVars, procVars, guiVars>>

\* transcriber.py:187
MergeReturn ==
    /\ mpc = "loop"
    /\ seg_pos = Len(whisper_segments)
    /\ mpc' = "returned"
    /\ UNCHANGED <<whisper_segments, speaker_segments, merged, speaker_idx, seg_pos>>
    /\ UNCHANGED <<parseVars, diarVars, relabelVars, stampVars, procVars, guiVars>>

\* The parser's variables while the merger is the function under study
ParseIdle ==
    /\ lines = <<>>
    /\ line_num = 0
    /\ state = "find_timestamp"
    /\ current_segment = EmptyDict
    /\ text_buffer = <<>>
    /\ segments = <<>>
    /\ ppc = "idle"

\* transcriber.py:158-159
InitMerge ==
    /\ whisper_segments \in WhisperInputs
    /\ speaker_segments \in SpeakerInputs
    /\ merged = <<>>
    /\ speaker_idx = 0
    /\ seg_pos = 0
    /\ mpc = "loop"
    /\ ParseIdle
    /\ DiarIdle
    /\ RelabelIdle
    /\ StampIdle
    /\ ProcIdle
    /\ GuiIdle

NextMerge == MergeIter \/ MergeReturn

SpecMerge == InitMerge /\ [][NextMerge]_vars

\* ------------------------------------------------------------------------
\* Text of the VTT file
\* ------------------------------------------------------------------------
\* A line is a sequence of tokens: whitespace, a word, or a stretch of text
\* that timestamp_pattern (transcriber.py:78) matches,
\*   (\d{2}:)?\d{2}:\d{2}\.\d{3}\s+-->\s+(\d{2}:)?\d{2}:\d{2}\.\d{3}
\* A timestamp string is the sequence of its ':'-separated fields, a field the
\* sequence of its '.'-separated digit groups, a digit group the sequence of
\* its decimal digits: "00:01.500" is << <<<<0,0>>>>, <<<<0,1>>, <<5,0,0>>>> >>.
Space == [kind |-> "space"]
Word(w) == [kind |-> "word", w |-> w]
Range(ts1, ws1, ws2, ts2) == [kind |-> "range", ts1 |-> ts1, ws1 |-> ws1, ws2 |-> ws2, ts2 |-> ts2]

Digits2(n) == <<(n \div 10) % 10, n % 10>>
Digits3(n) == <<(n \div 100) % 10, (n \div 10) % 10, n % 10>>
\* "HH:MM:SS.mmm" and "MM:SS.mmm"
Stamp3(h, m, sec, ms) == << <<Digits2(h)>>, <<Digits2(m)>>, <<Digits2(sec), Digits3(ms)>> >>
Stamp2(m, sec, ms) == << <<Digits2(m)>>, <<Digits2(sec), Digits3(ms)>> >>

\* The lines a file is drawn from
LineChoices ==
    { <<>>,                                                   \* "\n"
      <<Space>>,                                              \* "  \n"
      <<Word("Hello")>>,
      <<Space, Word("world"), Space>>,
      <<Word("WEBVTT")>>,
      <<Range(Stamp3(0, 0, 1, 0), " ", " ", Stamp3(0, 0, 2, 500))>>,   \* 1.0 --> 2.5
      <<Range(Stamp2(0, 2, 500), " ", " ", Stamp2(0, 2, 500))>>,       \* 2.5 --> 2.5
      <<Range(Stamp2(1, 0, 0), " ", " ", Stamp3(0, 0, 2, 500))>>,      \* 60.0 --> 2.5
      <<Range(Stamp2(0, 1, 0), "\t", "\t", Stamp2(0, 2, 500))>> }      \* tabs around -->

\* ------------------------------------------------------------------------
\* _parse_vtt_timestamp, transcriber.py:45-57
\* ------------------------------------------------------------------------
\* int(): the value of a string of decimal digits
RECURSIVE IntOf(_)
IntOf(ds) == IF ds = <<>> THEN 0 ELSE 10 * IntOf(SubSeq(ds, 1, Len(ds) - 1)) + ds[Len(ds)]

ValueError == [ok |-> FALSE, val |-> 0]
Returned(v) == [ok |-> TRUE, val |-> v]

\* transcriber.py:50-51 and 54-55: s, ms = s_ms.split('.') unpacks exactly two
\* groups; a field handed to int() must be one digit group. Milliseconds.
ParseVttTimestampMutant(ts) ==
    IF Len(ts) = 3
    THEN IF Len(ts[3]) = 2 /\ Len(ts[1]) = 1 /\ Len(ts[2]) = 1
         THEN Returned(IntOf(ts[1][1]) * 60 * 1000 + IntOf(ts[2][1]) * 60 * 1000
                       + IntOf(ts[3][1]) * 1000 + IntOf(ts[3][2]))
         ELSE ValueError
    ELSE IF Len(ts) = 2
    THEN IF Len(ts[2]) = 2 /\ Len(ts[1]) = 1
         THEN Returned(IntOf(ts[1][1]) * 60 * 1000 + IntOf(ts[2][1]) * 1000 + IntOf(ts[2][2]))
         ELSE ValueError
    ELSE ValueError
ParseVttTimestamp(ts) ==
    IF Len(ts) = 3
    THEN IF Len(ts[3]) = 2 /\ Len(ts[1]) = 1 /\ Len(ts[2]) = 1
         THEN Returned(IntOf(ts[1][1]) * 3600 * 1000 + IntOf(ts[2][1]) * 60 * 1000
                       + IntOf(ts[3][1]) * 1000 + IntOf(ts[3][2]))
         ELSE ValueError
    ELSE IF Len(ts) = 2
    THEN IF Len(ts[2]) = 2 /\ Len(ts[1]) = 1
         THEN Returned(IntOf(ts[1][1]) * 60 * 1000 + IntOf(ts[2][1]) * 1000 + IntOf(ts[2][2]))
         ELSE ValueError
    ELSE ValueError

\* ------------------------------------------------------------------------
\* _parse_timestamped_output, transcriber.py:59-130
\* ------------------------------------------------------------------------
DictSet(d, key, v) == [k \in DOMAIN d \cup {key} |-> IF k = key THEN v ELSE d[k]]
Truthy(x) == DOMAIN x # {}

\* transcriber.py:81: line.strip()
RECURSIVE LStrip(_)
LStrip(l) == IF l # <<>> /\ Head(l) = Space THEN LStrip(Tail(l)) ELSE l
RECURSIVE RStrip(_)
RStrip(l) == IF l # <<>> /\ l[Len(l)] = Space THEN RStrip(SubSeq(l, 1, Len(l) - 1)) ELSE l
Strip(l) == RStrip(LStrip(l))

\* transcriber.py:84-85: timestamp_pattern.match(line), a match at the start
\* of the line; group(0) is the matched stretch
Matches(line) == line # <<>> /\ Head(line).kind = "range"
Group0(line) == Head(line)

\* transcriber.py:87-88: match.group(0).split(' --> '). The separator occurs
\* when a blank stands on both sides of the arrow; otherwise the whole string
\* is the only part
SplitArrow(r) ==
    IF r.ws1 = " " /\ r.ws2 = " " THEN <<r.ts1, r.ts2>> ELSE <<r>>

\* transcriber.py:86-92, the try block: "ok" with the segment filled in, or
\* the exception it raises with the segment as it was left
TryTimestamp(r, cur) ==
    LET parts == SplitArrow(r) IN
    IF Len(parts) < 2
    THEN [outcome |-> "IndexError", seg |-> cur]
    ELSE LET st == ParseVttTimestamp(parts[1])
             en == ParseVttTimestamp(parts[2])
         IN  IF ~st.ok THEN [outcome |-> "ValueError", seg |-> cur]
             ELSE IF ~en.ok
             THEN [outcome |-> "ValueError", seg |-> DictSet(cur, "start", st.val)]
             ELSE [outcome |-> "ok",
                   seg |-> DictSet(DictSet(cur, "start", st.val), "end", en.val)]

\* transcriber.py:93: except ValueError
ExceptValueError(outcome) == outcome = "ValueError"
\* transcriber.py:96: except Exception, which every exception of the try block is
ExceptExceptionMutant(outcome) == FALSE
ExceptException(outcome) == outcome \in {"ValueError", "IndexError"}
\* transcriber.py:95 and 98: both handlers reset the segment
OnTimestampError(seg) == EmptyDict

\* transcriber.py:108 and 124: " ".join(text_buffer)
RECURSIVE Join(_)
JoinMutant(buf) ==
    IF buf = <<>> THEN <<>>
    ELSE IF Len(buf) = 1 THEN buf[1]
    ELSE buf[1] \o Join(Tail(buf))
Join(buf) ==
    IF buf = <<>> THEN <<>>
    ELSE IF Len(buf) = 1 THEN buf[1]
    ELSE buf[1] \o <<Space>> \o Join(Tail(buf))

\* transcriber.py:110: the "basic validation"; a missing key raises KeyError
HasTimes(seg) == {"start", "end"} \subseteq DOMAIN seg
ValidTimes(seg) == seg["start"] >= 0 /\ seg["end"] >= seg["start"]

\* transcriber.py:107-113: what the blank line appends to segments
FlushOnBlank(cur, buf, segs) ==
    IF Truthy(cur) /\ buf # <<>>
    THEN IF ValidTimes(cur) THEN Append(segs, DictSet(cur, "text", Join(buf))) ELSE segs
    ELSE segs

\* transcriber.py:123-128: the same at the end of the file
FlushAtEofFirstMutant(st, cur, buf, segs) ==
    IF st = "read_text" /\ Truthy(cur) /\ buf # <<>>
    THEN IF ValidTimes(cur) THEN <<DictSet(cur, "text", Join(buf))>> \o segs ELSE segs
    ELSE segs
FlushAtEofMutant(st, cur, buf, segs) ==
    IF st = "read_text" /\ Truthy(cur) /\ buf # <<>>
    THEN Append(segs, DictSet(cur, "text", Join(buf)))
    ELSE segs
FlushAtEof(st, cur, buf, segs) ==
    IF st = "read_text" /\ Truthy(cur) /\ buf # <<>>
    THEN IF ValidTimes(cur) THEN Append(segs, DictSet(cur, "text", Join(buf))) ELSE segs
    ELSE segs

\* transcriber.py:117-120: the reset after a blank line
ResetTextBufferMutant(buf) == buf
ResetTextBuffer(buf) == <<>>

\* transcriber.py:104-105: in read_text every non-empty line is text
CollectTextMutant(buf, line) == IF Matches(line) THEN <<>> ELSE Append(buf, line)
CollectText(buf, line) == Append(buf, line)

\* One iteration of the for loop, transcriber.py:80-120
ParseLine ==
    /\ ppc = "loop"
    /\ line_num < Len(lines)
    /\ line_num' = line_num + 1
    /\ LET line == Strip(lines[line_num + 1]) IN
       IF state = "find_timestamp"
       THEN IF Matches(line)
            THEN LET try == TryTimestamp(Group0(line), current_segment) IN
                 IF try.outcome = "ok"
                 THEN /\ current_segment' = try.seg
                      /\ text_buffer' = <<>>
                      /\ state' = "read_text"
                      /\ UNCHANGED <<segments, ppc>>
                 ELSE IF ExceptValueError(try.outcome) \/ ExceptException(try.outcome)
                 THEN /\ current_segment' = OnTimestampError(try.seg)
                      /\ UNCHANGED <<text_buffer, state, segments, ppc>>
                 ELSE \* no handler: the exception leaves the function
                      /\ ppc' = "raised"
                      /\ current_segment' = try.seg
                      /\ UNCHANGED <<text_buffer, state, segments>>
            ELSE \* header, sequence number or stray text: logged at most
                 UNCHANGED <<current_segment, text_buffer, state, segments, ppc>>
       ELSE IF line # <<>>
            THEN /\ text_buffer' = CollectText(text_buffer, line)
                 /\ UNCHANGED <<current_segment, state, segments, ppc>>
            ELSE IF Truthy(current_segment) /\ text_buffer # <<>> /\ ~HasTimes(current_segment)
                 THEN \* current_segment['start'] raises KeyError
                      /\ ppc' = "raised"
                      /\ UNCHANGED <<current_segment, text_buffer, state, segments>>
                 ELSE /\ segments' = FlushOnBlank(current_segment, text_buffer, segments)
                      /\ current_segment' = EmptyDict
                      /\ text_buffer' = ResetTextBuffer(text_buffer)
                      /\ state' = "find_timestamp"
                      /\ UNCHANGED ppc
    /\ UNCHANGED lines
    /\ UNCHANGED <<mergeVars, diarVars, relabelVars, stampVars, procVars, guiVars>>

\* After the loop, transcriber.py:122-130
ParseEnd ==
    /\ ppc = "loop"
    /\ line_num = Len(lines)
    /\ IF state = "read_text" /\ Truthy(current_segment) /\ text_buffer # <<>>
          /\ ~HasTimes(current_segment)
       THEN /\ ppc' = "raised"
            /\ UNCHANGED segments
       ELSE /\ segments' = FlushAtEof(state, current_segment, text_buffer, segments)
            /\ ppc' = "returned"
    /\ UNCHANGED <<lines, line_num, state, current_segment, text_buffer>>
    /\ UNCHANGED <<mergeVars, diarVars, relabelVars, stampVars, procVars, guiVars>>

\* The merger's variables while the parser is the function under study
MergeIdle ==
    /\ whisper_segments = <<>>
    /\ speaker_segments = <<>>
    /\ merged = <<>>
    /\ speaker_idx = 0
    /\ seg_pos = 0
    /\ mpc = "idle"

\* transcriber.py:61-78, the file read: lines holds f.readlines()
InitParse ==
    /\ lines \in SeqUpTo(LineChoices, MaxLines)
    /\ line_num = 0
    /\ state = "find_timestamp"
    /\ current_segment = EmptyDict
    /\ text_buffer = <<>>
    /\ segments = <<>>
    /\ ppc = "loop"
    /\ MergeIdle
    /\ DiarIdle
    /\ RelabelIdle
    /\ StampIdle
    /\ ProcIdle
    /\ GuiIdle

NextParse == ParseLine \/ ParseEnd

SpecParse == InitParse /\ [][NextParse]_vars

\* ------------------------------------------------------------------------
\* Inputs of SpeakerDiarizer.process_audio
\* ------------------------------------------------------------------------
\* Embedding vectors: an all-zero one and one that is not
EmbedChoices == {<<0, 0>>, <<0, 1>>}
\* Rows of wav_splits (ms): in the "pairs" shape a row is (start, end), two
\* proper windows and a degenerate one; in the "scalars" shape a row is one
\* boundary timestamp
PairChoices == {<<0, 1000>>, <<1000, 2000>>, <<1000, 1000>>}
ScalarChoices == {<<0>>, <<1000>>, <<2000>>}
SplitsChoices ==
    {[shape |-> "pairs", data |-> d] : d \in SeqUpTo(PairChoices, MaxWindows)}
    \cup {[shape |-> "scalars", data |-> d] : d \in SeqUpTo(ScalarChoices, MaxWindows)}
NoSplits == [shape |-> "scalars", data |-> <<>>]

\* What the collaborators do in one call: preprocess_wav (pre) and
\* embed_utterance (embed) return or raise; a returned result is a tuple
\* (splits, embeds), a dict {'embeddings', 'splits'} or something else
Adapter(pre, embed, kind, splits, embeds) ==
    [pre |-> pre, embed |-> embed, kind |-> kind, splits |-> splits, embeds |-> embeds]
AdapterChoices ==
    {Adapter("FileNotFoundError", "ok", "tuple", NoSplits, <<>>),
     Adapter("ok", "ValueError", "tuple", NoSplits, <<>>),
     Adapter("ok", "RuntimeError", "tuple", NoSplits, <<>>),
     Adapter("ok", "ok", "other", NoSplits, <<>>)}
    \cup {Adapter("ok", "ok", k, sp, em) :
            k \in {"tuple", "dict"}, sp \in SplitsChoices,
            em \in SeqUpTo(EmbedChoices, MaxWindows)}
\* One large input: BigSpeakers windows, none of them silent, BigSpeakers + 1
\* boundary timestamps one second apart
BigAdapter ==
    Adapter("ok", "ok", "tuple",
            [shape |-> "scalars", data |-> [k \in 1..(BigSpeakers + 1) |-> <<(k - 1) * 1000>>]],
            [k \in 1..BigSpeakers |-> <<0, 1>>])

\* ------------------------------------------------------------------------
\* SpeakerDiarizer.process_audio, diarizer.py:24-166
\* ------------------------------------------------------------------------
Raise(type, cause, at) == [type |-> type, cause |-> cause, at |-> at]

\* diarizer.py:48-59: which results the unpacking accepts
UnpackableMutant(kind) == TRUE
Unpackable(kind) == kind \in {"tuple", "dict"}

\* diarizer.py:69: np.any(cont_embeds_2d != 0, axis=1)
AnyNonZero(v) == \E k \in DOMAIN v : v[k] # 0
\* diarizer.py:69: the rows kept by the boolean mask, in order
FilterValidMutant(embeds) == embeds
FilterValid(embeds) == SelectSeq(embeds, AnyNonZero)

\* AgglomerativeClustering(n_clusters=n).fit(X) can return only for at least
\* two samples and 1 <= n <= number of samples; otherwise it raises ValueError
FitPossible(X, n) == Len(X) >= 2 /\ n >= 1 /\ n <= Len(X)
\* The labels_ a fit can return: one label in 0..n-1 per sample, every
\* cluster non-empty. For the large input only the labelling in sample order.
Labelings(X, n) ==
    IF Len(X) > MaxWindows + 1
    THEN {[k \in 1..Len(X) |-> k - 1]}
    ELSE {f \in [1..Len(X) -> 0..(n - 1)] : \A c \in 0..(n - 1) : \E k \in 1..Len(X) : f[k] = c}
\* The ways one fit can end
FitOutcomes(X, n) ==
    IF FitPossible(X, n) THEN {"ok", "ValueError", "OtherError"} ELSE {"ValueError"}

\* One AgglomerativeClustering(...).fit(valid_embeds) call, with its metric
\* and how it ended
AttemptMutant(metric, outcome) == [metric |-> "euclidean", outcome |-> outcome]
Attempt(metric, outcome) == [metric |-> metric, outcome |-> outcome]

\* diarizer.py:83: except ValueError
CosineCaughtMutant(outcome) == outcome \in {"ValueError", "OtherError"}
CosineCaught(outcome) == outcome = "ValueError"

\* diarizer.py:112
EffectiveNumSegmentsMutant(num_labels, splits) ==
    IF Len(splits.data) > 0
    THEN IF splits.shape = "pairs"
         THEN Min(num_labels, Len(splits.data))
         ELSE Min(num_labels, Len(splits.data) - 1)
    ELSE 0
EffectiveNumSegments(num_labels, splits) ==
    IF Len(splits.data) > 0 THEN Min(num_labels, Len(splits.data) - 1) ELSE 0

\* diarizer.py:118-121 (i is 0-based)
IsMockFormat(splits, i) == splits.shape = "pairs" /\ i < Len(splits.data)

\* diarizer.py:124-136: the interval of window i, or "skip" for the continue
Interval(splits, i) ==
    IF IsMockFormat(splits, i) \/ i + 1 < Len(splits.data)
    THEN IF IsMockFormat(splits, i)
         THEN [skip |-> FALSE, start |-> splits.data[i + 1][1], end |-> splits.data[i + 1][2]]
         ELSE [skip |-> FALSE, start |-> splits.data[i + 1][1], end |-> splits.data[i + 2][1]]
    ELSE [skip |-> TRUE, start |-> 0, end |-> 0]

\* diarizer.py:151: f'SPEAKER_{label:02d}': the decimal digits of the label,
\* padded with zeros on the left to a width of at least two
RECURSIVE DecimalDigits(_)
DecimalDigits(n) == IF n < 10 THEN <<n>> ELSE DecimalDigits(n \div 10) \o <<n % 10>>
Format02dMutant(n) == DecimalDigits(n)
Format02d(n) == IF n < 10 THEN <<0, n>> ELSE DecimalDigits(n)
SpeakerLabel(label) == <<"SPEAKER_", Format02d(label)>>

\* diarizer.py:157-165: the segment is kept only if start < end
KeepMutant(start, end) == start <= end
Keep(start, end) == start < end

\* diarizer.py:35-40
DiarPreprocess ==
    /\ dpc = "preprocess"
    /\ IF adapter.pre = "ok"
       THEN dpc' = "embed" /\ UNCHANGED diar_error
       ELSE dpc' = "raised" /\ diar_error' = Raise(adapter.pre, "none", "preprocess")
    /\ UNCHANGED <<n_speakers, adapter, wav_splits, cont_embeds, valid_embeds, attempts,
                   labels_, win_i, diar_segments>>
    /\ UNCHANGED <<mergeVars, parseVars, relabelVars, stampVars, procVars, guiVars>>

\* diarizer.py:44: the call stands before the try block, so what it raises
\* leaves process_audio as it is
DiarEmbed ==
    /\ dpc = "embed"
    /\ IF adapter.embed = "ok"
       THEN dpc' = "unpack" /\ UNCHANGED diar_error
       ELSE dpc' = "raised" /\ diar_error' = Raise(adapter.embed, "none", "embed")
    /\ UNCHANGED <<n_speakers, adapter, wav_splits, cont_embeds, valid_embeds, attempts,
                   labels_, win_i, diar_segments>>
    /\ UNCHANGED <<mergeVars, parseVars, relabelVars, stampVars, procVars, guiVars>>

\* diarizer.py:45-62
DiarUnpack ==
    /\ dpc = "unpack"
    /\ IF Unpackable(adapter.kind)
       THEN /\ wav_splits' = adapter.splits
            /\ cont_embeds' = adapter.embeds
            /\ dpc' = "filter"
            /\ UNCHANGED diar_error
       ELSE \* raise ValueError(...) from e, e the ValueError of line 59
            /\ dpc' = "raised"
            /\ diar_error' = Raise("ValueError", "ValueError", "unpack")
            /\ UNCHANGED <<wav_splits, cont_embeds>>
    /\ UNCHANGED <<n_speakers, adapter, valid_embeds, attempts, labels_, win_i, diar_segments>>
    /\ UNCHANGED <<mergeVars, parseVars, relabelVars, stampVars, procVars, guiVars>>

\* diarizer.py:64-73
DiarFilter ==
    /\ dpc = "filter"
    /\ valid_embeds' = FilterValid(cont_embeds)
    /\ IF Len(FilterValid(cont_embeds)) = 0
       THEN dpc' = "raised" /\ diar_error' = Raise("ValueError", "none", "zero")
       ELSE dpc' = "cosine" /\ UNCHANGED diar_error
    /\ UNCHANGED <<n_speakers, adapter, wav_splits, cont_embeds, attempts, labels_, win_i,
                   diar_segments>>
    /\ UNCHANGED <<mergeVars, parseVars, relabelVars, stampVars, procVars, guiVars>>

\* diarizer.py:76-84: the cosine fit
DiarCosine ==
    /\ dpc = "cosine"
    /\ \E outcome \in FitOutcomes(valid_embeds, n_speakers) :
        /\ attempts' = Append(attempts, Attempt("cosine", outcome))
        /\ IF outcome = "ok"
           THEN /\ labels_' \in Labelings(valid_embeds, n_speakers)
                /\ dpc' = "loop"
                /\ UNCHANGED diar_error
           ELSE IF CosineCaught(outcome)
           THEN /\ dpc' = "euclidean"
                /\ UNCHANGED <<labels_, diar_error>>
           ELSE /\ dpc' = "raised"
                /\ diar_error' = Raise(outcome, "none", "cosine")
                /\ UNCHANGED labels_
    /\ UNCHANGED <<n_speakers, adapter, wav_splits, cont_embeds, valid_embeds, win_i,
                   diar_segments>>
    /\ UNCHANGED <<mergeVars, parseVars, relabelVars, stampVars, procVars, guiVars>>

\* diarizer.py:85-89: the Euclidean fit inside the handler; nothing catches
\* what it raises
DiarEuclidean ==
    /\ dpc = "euclidean"
    /\ \E outcome \in FitOutcomes(valid_embeds, n_speakers) :
        /\ attempts' = Append(attempts, Attempt("euclidean", outcome))
        /\ IF outcome = "ok"
           THEN /\ labels_' \in Labelings(valid_embeds, n_speakers)
                /\ dpc' = "loop"
                /\ UNCHANGED diar_error
           ELSE /\ dpc' = "raised"
                /\ diar_error' = Raise(outcome, "none", "euclidean")
                /\ UNCHANGED labels_
    /\ UNCHANGED <<n_speakers, adapter, wav_splits, cont_embeds, valid_embeds, win_i,
                   diar_segments>>
    /\ UNCHANGED <<mergeVars, parseVars, relabelVars, stampVars, procVars, guiVars>>

\* One iteration of the for loop, diarizer.py:115-165
DiarLoopIter ==
    /\ dpc = "loop"
    /\ Len(labels_) # 0
    /\ win_i < EffectiveNumSegments(Len(labels_), wav_splits)
    /\ win_i' = win_i + 1
    /\ LET iv == Interval(wav_splits, win_i) IN
       IF ~iv.skip /\ win_i < Len(labels_) /\ Keep(iv.start, iv.end)
       THEN diar_segments' = Append(diar_segments,
                [start |-> iv.start, end |-> iv.end, speaker |-> SpeakerLabel(labels_[win_i + 1])])
       ELSE UNCHANGED diar_segments
    /\ UNCHANGED <<n_speakers, adapter, wav_splits, cont_embeds, valid_embeds, attempts,
                   labels_, diar_error, dpc>>
    /\ UNCHANGED <<mergeVars, parseVars, relabelVars, stampVars, procVars, guiVars>>

\* diarizer.py:95-97 (no labels) and 166
DiarReturn ==
    /\ dpc = "loop"
    /\ Len(labels_) = 0 \/ win_i = EffectiveNumSegments(Len(labels_), wav_splits)
    /\ dpc' = "returned"
    /\ UNCHANGED <<n_speakers, adapter, wav_splits, cont_embeds, valid_embeds, attempts,
                   labels_, win_i, diar_segments, diar_error>>
    /\ UNCHANGED <<mergeVars, parseVars, relabelVars, stampVars, procVars, guiVars>>

\* diarizer.py:9-17 and 24-33: a diarizer with its n_speakers, and one call
InitDiar ==
    /\ \/ n_speakers \in {1, 2} /\ adapter \in AdapterChoices
       \/ n_speakers = BigSpeakers /\ adapter = BigAdapter
    /\ wav_splits = <<>>
    /\ cont_embeds = <<>>
    /\ valid_embeds = <<>>
    /\ attempts = <<>>
    /\ labels_ = <<>>
    /\ win_i = 0
    /\ diar_segments = <<>>
    /\ diar_error = NoError
    /\ dpc = "preprocess"
    /\ MergeIdle
    /\ ParseIdle
    /\ RelabelIdle
    /\ StampIdle
    /\ ProcIdle
    /\ GuiIdle

NextDiar ==
    \/ DiarPreprocess \/ DiarEmbed \/ DiarUnpack \/ DiarFilter
    \/ DiarCosine \/ DiarEuclidean \/ DiarLoopIter \/ DiarReturn

SpecDiar == InitDiar /\ [][NextDiar]_vars

\* ------------------------------------------------------------------------
\* SpeakerDiarizer.assign_speaker_names, diarizer.py:168-186
\* ------------------------------------------------------------------------
\* A name given to a speaker, diarizer.py:177
John == <<"John", <<>>>>
\* Speaker fields of the input segments: two generic labels and a name
RelabelLabels == {SpeakerLabel(0), SpeakerLabel(1), John}
RelabelSegments ==
    {[start |-> t, end |-> t + 1000, speaker |-> l] : t \in {0, 1000}, l \in RelabelLabels}
\* name_mapping: None, or a dict from some generic labels to a name or to
\* the label SPEAKER_01
MappingChoices ==
    {None} \cup UNION {[K -> {SpeakerLabel(1), John}] : K \in SUBSET {SpeakerLabel(0), SpeakerLabel(1)}}

\* dict.get(key, default)
DictGetMutant(d, key, default) == IF key \in DOMAIN d THEN d[key] ELSE None
DictGet(d, key, default) == IF key \in DOMAIN d THEN d[key] ELSE default

\* diarizer.py:180-186. same_object: the returned list is the argument itself
AssignSpeakerNamesMutant(segs, mapping) ==
    [same_object |-> TRUE,
     items |-> [k \in 1..Len(segs) |->
                  [segs[k] EXCEPT !.speaker = DictGet(mapping, segs[k].speaker, segs[k].speaker)]]]
AssignSpeakerNames(segs, mapping) ==
    IF ~Truthy(mapping)
    THEN [same_object |-> TRUE, items |-> segs]
    ELSE [same_object |-> FALSE,
          items |-> [k \in 1..Len(segs) |->
                       [segs[k] EXCEPT !.speaker = DictGet(mapping, segs[k].speaker, segs[k].speaker)]]]

\* assign_speaker_names(segments, name_mapping)
RelabelOnce ==
    /\ rpc = "start"
    /\ once' = AssignSpeakerNames(in_segments, name_mapping)
    /\ rpc' = "once"
    /\ UNCHANGED <<in_segments, name_mapping, twice>>
    /\ UNCHANGED <<mergeVars, parseVars, diarVars, stampVars, procVars, guiVars>>

\* assign_speaker_names(named, name_mapping): the same mapping on the result
RelabelTwice ==
    /\ rpc = "once"
    /\ twice' = AssignSpeakerNames(once.items, name_mapping)
    /\ rpc' = "twice"
    /\ UNCHANGED <<in_segments, name_mapping, once>>
    /\ UNCHANGED <<mergeVars, parseVars, diarVars, stampVars, procVars, guiVars>>

InitRelabel ==
    /\ in_segments \in SeqUpTo(RelabelSegments, MaxRelabel)
    /\ name_mapping \in MappingChoices
    /\ once = <<>>
    /\ twice = <<>>
    /\ rpc = "start"
    /\ MergeIdle
    /\ ParseIdle
    /\ DiarIdle
    /\ StampIdle
    /\ ProcIdle
    /\ GuiIdle

NextRelabel == RelabelOnce \/ RelabelTwice

SpecRelabel == InitRelabel /\ [][NextRelabel]_vars

\* ------------------------------------------------------------------------
\* The two producers of segment sequences, each on its own input: the
\* caption parser on files long enough to hold two caption blocks, and
\* process_audio
\* ------------------------------------------------------------------------
\* The lines of those files: a blank line, a text line, and two timestamp
\* lines the parser accepts
OrderLineChoices ==
    { <<>>,
      <<Word("Hello")>>,
      <<Range(Stamp3(0, 0, 1, 0), " ", " ", Stamp3(0, 0, 2, 500))>>,   \* 1.0 --> 2.5
      <<Range(Stamp2(0, 2, 500), " ", " ", Stamp2(0, 2, 500))>> }      \* 2.5 --> 2.5

InitOrderParse ==
    /\ lines \in SeqUpTo(OrderLineChoices, MaxOrderLines)
    /\ line_num = 0
    /\ state = "find_timestamp"
    /\ current_segment = EmptyDict
    /\ text_buffer = <<>>
    /\ segments = <<>>
    /\ ppc = "loop"
    /\ MergeIdle
    /\ DiarIdle
    /\ RelabelIdle
    /\ StampIdle
    /\ ProcIdle
    /\ GuiIdle

InitOrder == InitOrderParse \/ InitDiar

NextOrder ==
    \/ ParseLine \/ ParseEnd
    \/ DiarPreprocess \/ DiarEmbed \/ DiarUnpack \/ DiarFilter
    \/ DiarCosine \/ DiarEuclidean \/ DiarLoopIter \/ DiarReturn

SpecOrder == InitOrder /\ [][NextOrder]_vars

\* ------------------------------------------------------------------------
\* _parse_vtt_timestamp called on its own, transcriber.py:45-57
\* ------------------------------------------------------------------------
\* Timestamp strings: HH:MM:SS.mmm and MM:SS.mmm, and strings with one or
\* four colon-separated parts or without the '.' in the seconds
StampChoices ==
    {Stamp3(h, m, sec, ms) : h \in {0, 1}, m \in {0, 59}, sec \in {1, 59}, ms \in {0, 500, 999}}
    \cup {Stamp2(m, sec, ms) : m \in {0, 59}, sec \in {1, 59}, ms \in {0, 500, 999}}
    \cup {<< <<Digits2(sec), Digits3(ms)>> >> : sec \in {1, 59}, ms \in {0, 500, 999}}
    \cup {<< <<Digits2(d)>> >> \o Stamp3(h, m, sec, ms) :
            d \in {0, 1}, h \in {0, 1}, m \in {0, 59}, sec \in {1, 59}, ms \in {0, 500, 999}}
    \cup {<< <<Digits2(h)>>, <<Digits2(m)>>, <<Digits2(sec)>> >> :
            h \in {0, 1}, m \in {0, 59}, sec \in {1, 59}}
    \cup {<< <<Digits2(m)>>, <<Digits2(sec)>> >> : m \in {0, 59}, sec \in {1, 59}}

StampCall ==
    /\ tpc = "start"
    /\ ts_result' = ParseVttTimestamp(ts_str)
    /\ tpc' = "done"
    /\ UNCHANGED ts_str
    /\ UNCHANGED <<mergeVars, parseVars, diarVars, relabelVars, procVars, guiVars>>

InitStamp ==
    /\ ts_str \in StampChoices
    /\ ts_result = <<>>
    /\ tpc = "start"
    /\ MergeIdle
    /\ ParseIdle
    /\ DiarIdle
    /\ RelabelIdle
    /\ ProcIdle
    /\ GuiIdle

NextStamp == StampCall

SpecStamp == InitStamp /\ [][NextStamp]_vars

\* ------------------------------------------------------------------------
\* AudioProcessor, processor.py:12-66
\* ------------------------------------------------------------------------
\* processor.py:10
SUPPORTED_FORMATS == {".wav", ".mp3", ".m4a"}
\* str.lower() on the endings the files below have
Lower(ext) == IF ext = ".MP3" THEN ".mp3" ELSE ext
\* The files load_audio is called on: name and ending
ProcFiles ==
    {[name |-> "a", ext |-> ".wav"], [name |-> "b", ext |-> ".MP3"], [name |-> "c", ext |-> ".txt"]}
\* processor.py:32
SupportedFormat(file) == Lower(file.ext) \in SUPPORTED_FORMATS
\* What librosa.load and diarizer.process_audio give for a file
AudioOf(file) == <<"audio", file.name>>
SegmentsOf(file) == <<"segments", file.name>>

\* processor.py:20-56, one call. librosa.load and the diarizer each return
\* or raise.
LoadAudio ==
    /\ apc = "ready"
    /\ loads < MaxLoads
    /\ loads' = loads + 1
    /\ \E file \in ProcFiles, load_ok \in BOOLEAN, diarize_ok \in BOOLEAN :
        IF ~SupportedFormat(file)
        THEN /\ load_result' = [raised |-> "ValueError", file |-> file.name]
             /\ UNCHANGED <<_audio, _sample_rate, _speaker_segments>>
        ELSE IF ~load_ok
        THEN \* librosa.load raised: the tuple assignment at 37 did not happen
             /\ load_result' = [raised |-> "LoadError", file |-> file.name]
             /\ UNCHANGED <<_audio, _sample_rate, _speaker_segments>>
        ELSE /\ _audio' = AudioOf(file)
             /\ _sample_rate' = <<16000>>
             /\ IF diarize_ok
                THEN /\ _speaker_segments' = SegmentsOf(file)
                     /\ load_result' = [raised |-> "none", file |-> file.name]
                ELSE /\ load_result' = [raised |-> "RuntimeError", file |-> file.name]
                     /\ UNCHANGED _speaker_segments
    /\ UNCHANGED <<got, apc>>
    /\ UNCHANGED <<mergeVars, parseVars, diarVars, relabelVars, stampVars, guiVars>>

\* processor.py:58-66
GetSpeakerSegments ==
    /\ apc = "ready"
    /\ got' = IF _speaker_segments = None
              THEN [raised |-> "RuntimeError", value |-> None]
              ELSE [raised |-> "none", value |-> _speaker_segments]
    /\ UNCHANGED <<_audio, _sample_rate, _speaker_segments, loads, load_result, apc>>
    /\ UNCHANGED <<mergeVars, parseVars, diarVars, relabelVars, stampVars, guiVars>>

\* processor.py:13-18
InitProc ==
    /\ _audio = None
    /\ _sample_rate = None
    /\ _speaker_segments = None
    /\ loads = 0
    /\ load_result = <<>>
    /\ got = <<>>
    /\ apc = "ready"
    /\ MergeIdle
    /\ ParseIdle
    /\ DiarIdle
    /\ RelabelIdle
    /\ StampIdle
    /\ GuiIdle

NextProc == LoadAudio \/ GetSpeakerSegments

SpecProc == InitProc /\ [][NextProc]_vars

\* ------------------------------------------------------------------------
\* MeetingTranscriberApp, main_gui.py:25-153. The Tk main loop runs one
\* handler at a time (browse_file, start_transcription, check_thread, the
\* callbacks of root.after); each worker thread runs transcription_thread
\* and is interleaved with the main loop statement by statement. The status
\* line and the text widget are written and never read: they, and the
\* root.after(0, ...) callbacks that only write them, are left out.
\* ------------------------------------------------------------------------
\* What the file dialog can return: nothing (cancelled) or a file name
BrowseChoices == {"", "meeting.wav", "notes.txt"}
\* main_gui.py:114: the name ends with one of SUPPORTED_FORMATS
GuiSupported(name) == name = "meeting.wav"

\* A worker thread: where it stands in transcription_thread, the file_path it
\* was given, and how its try block ended
Thread(pc, file, outcome) == [pc |-> pc, file |-> file, outcome |-> outcome]
\* threading.Thread.is_alive(); active_thread holds <<t>> for worker t
IsAlive(t) == threads[t].pc # "done"

\* main_gui.py:134: the callback worker t hands to root.after(0, ...)
EnableCallback(t) == [kind |-> "enable", by |-> t]

\* main_gui.py:82
BusyMutant(active) == FALSE
Busy(active) == active # None

\* main_gui.py:127-133: where a worker goes when its try block is left
AfterTryMutant(outcome) == IF outcome = "ok" THEN "finally" ELSE "done"
AfterTry(outcome) == "finally"

\* main_gui.py:69-79
BrowseFile ==
    /\ gpc = "mainloop"
    /\ \E filename \in BrowseChoices, exists \in BOOLEAN :
        IF filename # ""
        THEN /\ file_path' = filename
             /\ IF exists
                THEN transcribe_btn' = "normal"
                ELSE transcribe_btn' = "disabled"
        ELSE UNCHANGED <<file_path, transcribe_btn>>
    /\ UNCHANGED <<active_thread, threads, after_queue, checks, dialog, gpc>>
    /\ UNCHANGED <<mergeVars, parseVars, diarVars, relabelVars, stampVars, procVars>>

\* main_gui.py:81-105, the command of the Transcribe button: a disabled
\* button runs no command
StartTranscription ==
    /\ gpc = "mainloop"
    /\ transcribe_btn = "normal"
    /\ \E exists \in BOOLEAN :
        IF Busy(active_thread)
        THEN /\ dialog' = "Busy"
             /\ UNCHANGED <<transcribe_btn, active_thread, threads, checks>>
        ELSE IF file_path = "" \/ ~exists
        THEN /\ dialog' = "File Error"
             /\ UNCHANGED <<transcribe_btn, active_thread, threads, checks>>
        ELSE /\ Len(threads) < MaxStarts
             /\ transcribe_btn' = "disabled"
             /\ threads' = Append(threads, Thread("validate", file_path, "none"))
             /\ active_thread' = <<Len(threads) + 1>>
             /\ checks' = checks + 1
             /\ UNCHANGED dialog
    /\ UNCHANGED <<file_path, after_queue, gpc>>
    /\ UNCHANGED <<mergeVars, parseVars, diarVars, relabelVars, stampVars, procVars>>

\* main_gui.py:136-138, run by a root.after(100, ...) timer
CheckThread ==
    /\ gpc = "mainloop"
    /\ checks > 0
    /\ IF active_thread # None /\ IsAlive(active_thread[1])
       THEN UNCHANGED checks
       ELSE checks' = checks - 1
    /\ UNCHANGED <<file_path, transcribe_btn, active_thread, threads, after_queue,
                   dialog, gpc>>
    /\ UNCHANGED <<mergeVars, parseVars, diarVars, relabelVars, stampVars, procVars>>

\* The main loop runs the oldest pending callback of main_gui.py:134
RunCallback ==
    /\ gpc = "mainloop"
    /\ after_queue # <<>>
    /\ after_queue' = Tail(after_queue)
    /\ Head(after_queue).kind = "enable"
    /\ transcribe_btn' = "normal"
    /\ UNCHANGED <<file_path, active_thread, threads, checks, dialog, gpc>>
    /\ UNCHANGED <<mergeVars, parseVars, diarVars, relabelVars, stampVars, procVars>>

\* main_gui.py:108-118 of worker t, and 127-130 when the validation raises
WorkerValidate(t) ==
    /\ t \in DOMAIN threads
    /\ threads[t].pc = "validate"
    /\ \E exists \in BOOLEAN :
        IF exists /\ GuiSupported(threads[t].file)
        THEN threads' = [threads EXCEPT ![t].pc = "transcribe"]
        ELSE threads' = [threads EXCEPT ![t].pc = AfterTry("failed"), ![t].outcome = "failed"]
    /\ UNCHANGED <<file_path, transcribe_btn, active_thread, after_queue, checks, dialog, gpc>>
    /\ UNCHANGED <<mergeVars, parseVars, diarVars, relabelVars, stampVars, procVars>>

\* main_gui.py:121-130 of worker t: transcribe_audio returns or raises
WorkerTranscribe(t) ==
    /\ t \in DOMAIN threads
    /\ threads[t].pc = "transcribe"
    /\ \E outcome \in {"ok", "failed"} :
        threads' = [threads EXCEPT ![t].pc = AfterTry(outcome), ![t].outcome = outcome]
    /\ UNCHANGED <<file_path, transcribe_btn, active_thread, after_queue, checks, dialog, gpc>>
    /\ UNCHANGED <<mergeVars, parseVars, diarVars, relabelVars, stampVars, procVars>>

\* main_gui.py:133 of worker t
WorkerClear(t) ==
    /\ t \in DOMAIN threads
    /\ threads[t].pc = "finally"
    /\ active_thread' = None
    /\ threads' = [threads EXCEPT ![t].pc = "schedule"]
    /\ UNCHANGED <<file_path, transcribe_btn, after_queue, checks, dialog, gpc>>
    /\ UNCHANGED <<mergeVars, parseVars, diarVars, relabelVars, stampVars, procVars>>

\* main_gui.py:134 of worker t, after which the thread ends
WorkerSchedule(t) ==
    /\ t \in DOMAIN threads
    /\ threads[t].pc = "schedule"
    /\ after_queue' = Append(after_queue, EnableCallback(t))
    /\ threads' = [threads EXCEPT ![t].pc = "done"]
    /\ UNCHANGED <<file_path, transcribe_btn, active_thread, checks, dialog, gpc>>
    /\ UNCHANGED <<mergeVars, parseVars, diarVars, relabelVars, stampVars, procVars>>

Worker(t) == WorkerValidate(t) \/ WorkerTranscribe(t) \/ WorkerClear(t) \/ WorkerSchedule(t)

\* main_gui.py:26-67
InitGui ==
    /\ file_path = ""
    /\ transcribe_btn = "disabled"
    /\ active_thread = None
    /\ threads = <<>>
    /\ after_queue = <<>>
    /\ checks = 0
    /\ dialog = "none"
    /\ gpc = "mainloop"
    /\ MergeIdle
    /\ ParseIdle
    /\ DiarIdle
    /\ RelabelIdle
    /\ StampIdle
    /\ ProcIdle

NextGui ==
    \/ BrowseFile
    \/ StartTranscription
    \/ CheckThread
    \/ RunCallback
    \/ \E t \in 1..MaxStarts : WorkerValidate(t)
    \/ \E t \in 1..MaxStarts : WorkerTranscribe(t)
    \/ \E t \in 1..MaxStarts : WorkerClear(t)
    \/ \E t \in 1..MaxStarts : WorkerSchedule(t)

SpecGui == InitGui /\ [][NextGui]_vars

\* Every started thread keeps running and transcribe_audio comes back; the
\* main loop keeps serving its root.after(0, ...) callbacks
SpecGuiFair ==
    /\ SpecGui
    /\ \A t \in 1..MaxStarts : WF_vars(Worker(t))
    /\ WF_vars(RunCallback)

\* ------------------------------------------------------------------------
\* Claims about the merger (checked under SpecMerge)
\* ------------------------------------------------------------------------
\* The overlap of a transcript segment and a speaker segment as the claims
\* word it: min(t.end, s.end) - max(t.start, s.start)
ClaimOverlap(t, s) ==
    (IF t.end <= s.end THEN t.end ELSE s.end) - (IF t.start >= s.start THEN t.start ELSE s.start)

\* "overlap / (t.end - t.start) > 0.5" for a transcript segment of positive duration
ClaimMoreThanHalf(t, s) == t.end > t.start /\ 2 * ClaimOverlap(t, s) > t.end - t.start

\* C1: a transcript segment gets the label of the speaker segment under the
\* cursor (after the advance) exactly when that segment's overlap with it is
\* more than half of the transcript segment's own duration; in every other
\* case (cursor past the end, no overlap, ratio <= 0.5) its speaker is none.
C1_LabelRule ==
    [][Len(merged') = Len(merged) + 1 =>
        LET t == whisper_segments[seg_pos + 1]
            j == speaker_idx'
            out == merged'[Len(merged')]
        IN  out.speaker =
                IF j < Len(speaker_segments) /\ ClaimMoreThanHalf(t, speaker_segments[j + 1])
                THEN speaker_segments[j + 1].speaker
                ELSE None]_vars

\* C1 witness: one pass has produced both a labelled and an unlabelled segment,
\* the unlabelled one at a ratio of exactly one half
C1_Witness ==
    /\ mpc = "returned"
    /\ \E i, k \in DOMAIN merged :
        /\ merged[i].speaker # None
        /\ merged[k].speaker = None
        /\ \E s \in DOMAIN speaker_segments :
            2 * ClaimOverlap(whisper_segments[k], speaker_segments[s]) =
                whisper_segments[k].end - whisper_segments[k].start
        /\ whisper_segments[k].end > whisper_segments[k].start

\* C2: a transcript segment that no speaker segment overlaps by more than half
\* of its duration is given no speaker.
C2_NoMajorityNoSpeaker ==
    \A i \in DOMAIN merged :
        (\A s \in DOMAIN speaker_segments :
            ~ClaimMoreThanHalf(whisper_segments[i], speaker_segments[s]))
        => merged[i].speaker = None

\* C2 witness: transcript [0,10] against a speaker list holding [5,10], best
\* overlap exactly 50%, has been merged
C2_Witness ==
    /\ Len(merged) >= 1
    /\ whisper_segments[1].start = 0 /\ whisper_segments[1].end = 10000
    /\ Len(speaker_segments) >= 1
    /\ speaker_segments[1].start = 5000 /\ speaker_segments[1].end = 10000
    /\ \A s \in DOMAIN speaker_segments :
        2 * ClaimOverlap(whisper_segments[1], speaker_segments[s]) <= 10000
    /\ merged[1].speaker = None

\* The scene of C3: transcript [0,10] first, speakers [0,4] then [4,10]
C3_Scene ==
    /\ Len(whisper_segments) >= 1
    /\ whisper_segments[1].start = 0 /\ whisper_segments[1].end = 10000
    /\ Len(speaker_segments) = 2
    /\ speaker_segments[1].start = 0 /\ speaker_segments[1].end = 4000
    /\ speaker_segments[2].start = 4000 /\ speaker_segments[2].end = 10000
    /\ Len(merged) >= 1

\* C3 as claimed: transcript [0,10] against speakers [0,4], [4,10] is given
\* the speaker of the segment the cursor is on at entry, the [0,4] segment.
C3_Original == C3_Scene => merged[1].speaker = speaker_segments[1].speaker

\* C3 amended: in that scene only the [0,4] segment is examined, its overlap
\* 4/10 is not more than half, and the transcript segment is given no speaker
\* (the [4,10] segment, 6/10, is never considered).
C3_CursorSegmentOnly == C3_Scene => merged[1].speaker = None

C3_Witness == C3_Scene /\ mpc = "returned" /\ speaker_idx = 0

\* Start order, clean turns and equal cover, as C4 supposes them
StartOrdered(segs) == \A i, k \in DOMAIN segs : i < k => segs[i].start <= segs[k].start
CleanTurns(spk) == \A i, k \in DOMAIN spk : i < k => spk[i].end <= spk[k].start
SameRange(ws, spk) ==
    /\ ws # <<>> /\ spk # <<>>
    /\ \A k \in 1..(Len(spk) - 1) : spk[k].end = spk[k + 1].start
    /\ spk[1].start = ws[1].start
    /\ \A i \in DOMAIN ws : ws[i].end <= spk[Len(spk)].end
    /\ \E i \in DOMAIN ws : ws[i].end = spk[Len(spk)].end
C4_Given ==
    /\ StartOrdered(whisper_segments)
    /\ StartOrdered(speaker_segments)
    /\ CleanTurns(speaker_segments)
    /\ SameRange(whisper_segments, speaker_segments)
Within(t, s) == s.start <= t.start /\ t.end <= s.end

C5_PassThrough ==
    /\ [](/\ Len(merged) = seg_pos
          /\ \A i \in DOMAIN merged :
                /\ merged[i].start = whisper_segments[i].start
                /\ merged[i].end = whisper_segments[i].end
                /\ merged[i].text = whisper_segments[i].text
          /\ (mpc = "returned" => Len(merged) = Len(whisper_segments)))
    /\ [][whisper_segments' = whisper_segments /\ speaker_segments' = speaker_segments]_vars

C5_Witness ==
    /\ mpc = "returned"
    /\ Len(merged) = 2
    /\ merged[1].text # merged[2].text
    /\ merged[1].speaker # merged[2].speaker

\* C6: the merge never fails, for every pair of inputs, a transcript segment
\* with end equal to start included.
C6_MergeNeverRaises == mpc # "raised"

\* ------------------------------------------------------------------------
\* Claims about the caption parser (checked under SpecParse)
\* ------------------------------------------------------------------------
\* A line with its leading and trailing whitespace removed, said without the
\* parser's own helpers: what lies between the first and the last token that
\* is not whitespace
ClaimStripped(l) ==
    LET solid == {k \in DOMAIN l : l[k] # Space} IN
    IF solid = {} THEN <<>>
    ELSE SubSeq(l, CHOOSE k \in solid : \A m \in solid : k <= m,
                   CHOOSE k \in solid : \A m \in solid : k >= m)
ClaimBlank(l) == \A k \in DOMAIN l : l[k] = Space

\* The line about to be consumed
NextLine == lines[line_num + 1]
Consuming == ppc = "loop" /\ line_num < Len(lines) /\ line_num' = line_num + 1

\* A line that the timestamp pattern matches
ClaimTimestampLine(l) == ClaimStripped(l) # <<>> /\ ClaimStripped(l)[1].kind = "range"
\* ... and whose parse fails: no ' --> ' to split on, or a timestamp that
\* _parse_vtt_timestamp rejects
ClaimParseFails(l) ==
    LET r == ClaimStripped(l)[1] IN
    \/ r.ws1 # " " \/ r.ws2 # " "
    \/ ~ParseVttTimestamp(r.ts1).ok \/ ~ParseVttTimestamp(r.ts2).ok

\* C7: the parser never raises; a timestamp line whose parse fails is skipped:
\* the parser stays in find_timestamp with no pending segment and with the
\* segments recovered so far, and the lines after it are parsed as usual.
C7_ParserNeverRaises ==
    /\ [](ppc # "raised")
    /\ [][(Consuming /\ state = "find_timestamp"
            /\ ClaimTimestampLine(NextLine) /\ ClaimParseFails(NextLine))
          => (/\ ppc' = "loop"
              /\ state' = "find_timestamp"
              /\ current_segment' = EmptyDict
              /\ text_buffer' = <<>>
              /\ segments' = segments)]_vars

\* C7 witness: the first line is a timestamp line whose parse fails, and the
\* block after it has been recovered and returned
C7_Witness ==
    /\ ppc = "returned"
    /\ Len(lines) = 4
    /\ ClaimTimestampLine(lines[1]) /\ ClaimParseFails(lines[1])
    /\ Len(segments) = 1

\* C8: every segment the parser emits has start < end.
C8_StartBeforeEnd ==
    \A i \in DOMAIN segments : segments[i]["start"] < segments[i]["end"]

\* A well-formed caption block in lines i..j: it begins the file or follows a
\* blank line, line i is "TIMESTAMP --> TIMESTAMP" with end >= start, lines
\* i+1..j-1 are one or more lines of text, line j is blank
ClaimGoodRange(l) ==
    /\ ClaimTimestampLine(l)
    /\ ~ClaimParseFails(l)
    /\ ParseVttTimestamp(ClaimStripped(l)[1].ts2).val >= ParseVttTimestamp(ClaimStripped(l)[1].ts1).val
ClaimBlockAt(i, j) ==
    /\ 1 <= i /\ i + 2 <= j /\ j <= Len(lines)
    /\ (i = 1 \/ ClaimBlank(lines[i - 1]))
    /\ ClaimGoodRange(lines[i])
    /\ \A k \in (i + 1)..(j - 1) : ~ClaimBlank(lines[k])
    /\ ClaimBlank(lines[j])
\* The text lines i..j, each stripped, joined in order by single spaces
RECURSIVE ClaimJoined(_, _)
ClaimJoined(i, j) ==
    IF i = j THEN ClaimStripped(lines[i])
    ELSE ClaimJoined(i, j - 1) \o <<Space>> \o ClaimStripped(lines[j])
ClaimSegment(i, j) ==
    [start |-> ParseVttTimestamp(ClaimStripped(lines[i])[1].ts1).val,
     end |-> ParseVttTimestamp(ClaimStripped(lines[i])[1].ts2).val,
     text |-> ClaimJoined(i + 1, j - 1)]

\* C9: a well-formed caption block parses to exactly one segment: nothing is
\* emitted while its lines are read, and its blank line appends the segment
\* with the two parsed timestamps and the stripped text lines joined by single
\* spaces; a file that is one such block yields that one segment.
C9_BlockToSegment ==
    /\ [][Consuming =>
            \A i \in 1..(line_num + 1) : \A j \in (line_num + 1)..Len(lines) :
                ClaimBlockAt(i, j) =>
                    IF j = line_num + 1
                    THEN segments' = Append(segments, ClaimSegment(i, j))
                    ELSE segments' = segments]_vars
    /\ []((ppc = "returned" /\ ClaimBlockAt(1, Len(lines)))
            => segments = <<ClaimSegment(1, Len(lines))>>)

\* C9 witness: the block 00:00:01.000 --> 00:00:02.500 / Hello / " world " /
\* blank has been parsed to {start 1.0, end 2.5, text "Hello world"}
C9_Witness ==
    /\ ppc = "returned"
    /\ Len(lines) = 4
    /\ ClaimBlockAt(1, 4)
    /\ segments = <<[start |-> 1000, end |-> 2500,
                     text |-> <<Word("Hello"), Space, Word("world")>>]>>

\* C10: in read_text a blank line always resets the pending timestamps and the
\* text accumulator and returns the parser to find_timestamp, whether or not a
\* segment was emitted; a timestamp line directly followed by a blank line
\* emits no segment.
C10_BlankLineResets ==
    /\ [][(Consuming /\ state = "read_text" /\ ClaimBlank(NextLine))
          => (/\ state' = "find_timestamp"
              /\ current_segment' = EmptyDict
              /\ text_buffer' = <<>>
              /\ (line_num >= 1 /\ ClaimTimestampLine(lines[line_num]) /\ text_buffer = <<>>
                    => segments' = segments))]_vars
    /\ []((ppc = "returned" /\ Len(lines) = 2
            /\ ClaimTimestampLine(lines[1]) /\ ClaimBlank(lines[2]))
            => segments = <<>>)

\* C10 witness: a timestamp line was directly followed by a blank line, and
\* the parser is back in find_timestamp with nothing pending and nothing emitted
C10_Witness ==
    /\ line_num = 2
    /\ ClaimGoodRange(lines[1]) /\ ClaimBlank(lines[2])
    /\ state = "find_timestamp"
    /\ current_segment = EmptyDict /\ text_buffer = <<>>
    /\ segments = <<>>

\* What a terminating blank line does to segments from the parser's state in
\* read_text, by the wording of the blank-line case: emit the pending segment
\* if it has text and start >= 0 and end >= start
ClaimBlankLineResult ==
    IF text_buffer # <<>> /\ current_segment["start"] >= 0
       /\ current_segment["end"] >= current_segment["start"]
    THEN Append(segments,
                [start |-> current_segment["start"], end |-> current_segment["end"],
                 text |-> ClaimJoined(line_num - Len(text_buffer) + 1, line_num)])
    ELSE segments

\* C11: the end of the input in read_text is handled exactly like a
\* terminating blank line: the returned segments are those a blank line would
\* have left, which are also those the blank-line code computes.
C11_EofLikeBlankLine ==
    [][(ppc = "loop" /\ ppc' = "returned" /\ state = "read_text")
        => (/\ segments' = ClaimBlankLineResult
            /\ segments' = FlushOnBlank(current_segment, text_buffer, segments))]_vars

\* C11 witness: the file ended in read_text with pending text, and the pending
\* segment was emitted at the end of the input
C11_Witness ==
    /\ ppc = "returned"
    /\ state = "read_text"
    /\ Len(lines) = 3
    /\ ClaimGoodRange(lines[1])
    /\ text_buffer # <<>>
    /\ Len(segments) = 1
    /\ segments[1]["text"] = ClaimJoined(2, 3)

\* ------------------------------------------------------------------------
\* Claims about the diarizer (checked under SpecDiar)
\* ------------------------------------------------------------------------
RECURSIVE ClaimDigitsValue(_)
ClaimDigitsValue(d) ==
    IF d = <<>> THEN 0 ELSE 10 * ClaimDigitsValue(SubSeq(d, 1, Len(d) - 1)) + d[Len(d)]
ClaimIsDigits(d) == \A k \in DOMAIN d : d[k] \in 0..9

\* C12 as stated: every emitted segment has start < end and a label SPEAKER_
\* followed by exactly two digits, whatever n_speakers is.
C12_Original ==
    \A k \in DOMAIN diar_segments :
        /\ diar_segments[k].start < diar_segments[k].end
        /\ diar_segments[k].speaker[1] = "SPEAKER_"
        /\ ClaimIsDigits(diar_segments[k].speaker[2])
        /\ Len(diar_segments[k].speaker[2]) = 2

\* C12, amended: every emitted segment has start < end and a label SPEAKER_
\* followed by the decimal digits of a cluster label of the fit, padded with
\* zeros to at least two digits: exactly two digits when the cluster label
\* is below 100, and no leading zero when there are more than two.
C12_AtLeastTwoDigits ==
    \A k \in DOMAIN diar_segments :
        LET d == diar_segments[k].speaker[2] IN
        /\ diar_segments[k].start < diar_segments[k].end
        /\ diar_segments[k].speaker[1] = "SPEAKER_"
        /\ ClaimIsDigits(d)
        /\ Len(d) >= 2
        /\ \E j \in DOMAIN labels_ : labels_[j] = ClaimDigitsValue(d)
        /\ ClaimDigitsValue(d) < 100 => Len(d) = 2
        /\ Len(d) > 2 => d[1] # 0

C12_Witness ==
    /\ dpc = "returned"
    /\ n_speakers = BigSpeakers
    /\ Len(diar_segments) = BigSpeakers
    /\ Len(diar_segments[1].speaker[2]) = 2
    /\ Len(diar_segments[BigSpeakers].speaker[2]) = 3

ClaimAllZero(embeds) == \A k \in DOMAIN embeds : \A j \in DOMAIN embeds[k] : embeds[k][j] = 0
ClaimAdapterReturns == adapter.pre = "ok" /\ adapter.embed = "ok" /\ adapter.kind \in {"tuple", "dict"}

\* C13: when every embedding vector the adapter returns is all-zero, the call
\* ends in a ValueError raised before any clustering attempt, and no segment
\* is produced; it never returns.
C13_AllZeroFails ==
    (/\ ClaimAdapterReturns
     /\ ClaimAllZero(adapter.embeds)
     /\ dpc \notin {"preprocess", "embed", "unpack", "filter"})
    => (/\ dpc = "raised"
        /\ diar_error.type = "ValueError"
        /\ attempts = <<>>
        /\ labels_ = <<>>
        /\ diar_segments = <<>>)

C13_Witness ==
    /\ dpc = "raised"
    /\ ClaimAdapterReturns
    /\ Len(cont_embeds) = 2
    /\ ClaimAllZero(cont_embeds)
    /\ Len(wav_splits.data) = 3
    /\ diar_error.type = "ValueError"

ClaimCallEnded == dpc \in {"returned", "raised"}

\* C14 as stated: whenever the cosine attempt fails, however it fails and
\* however the Euclidean attempt ends, the call produces a result through the
\* Euclidean fallback and no exception escapes.
C14_Original ==
    (ClaimCallEnded /\ attempts # <<>> /\ attempts[1].outcome # "ok")
    => (/\ dpc = "returned"
        /\ Len(attempts) = 2
        /\ attempts[2].metric = "euclidean")

\* C14, amended: when the cosine attempt fails with a ValueError the Euclidean
\* fit is attempted on the same data; if it succeeds the call goes on to its
\* result with no exception, if it fails its exception escapes. A cosine
\* failure that is not a ValueError escapes with no Euclidean attempt.
C14_FallbackOnValueError ==
    /\ attempts # <<>> =>
        /\ attempts[1].metric = "cosine"
        /\ attempts[1].outcome = "ok" => Len(attempts) = 1 /\ dpc \in {"loop", "returned"}
        /\ attempts[1].outcome = "ValueError" =>
            \/ dpc = "euclidean" /\ Len(attempts) = 1 /\ diar_error = NoError
            \/ Len(attempts) = 2
        /\ attempts[1].outcome = "OtherError" =>
            /\ Len(attempts) = 1
            /\ dpc = "raised"
            /\ diar_error.type = "OtherError"
    /\ Len(attempts) = 2 =>
        /\ attempts[2].metric = "euclidean"
        /\ valid_embeds = FilterValid(adapter.embeds)
        /\ attempts[2].outcome = "ok" => dpc \in {"loop", "returned"} /\ diar_error = NoError
        /\ attempts[2].outcome # "ok" =>
            /\ dpc = "raised"
            /\ diar_error.type = attempts[2].outcome
            /\ diar_segments = <<>>

C14_Witness ==
    /\ dpc = "returned"
    /\ Len(attempts) = 2
    /\ attempts[1].outcome = "ValueError"
    /\ attempts[2].outcome = "ok"
    /\ Len(diar_segments) = 2

ClaimProperPairs(splits) ==
    splits.shape = "pairs" /\ \A k \in DOMAIN splits.data : splits.data[k][1] < splits.data[k][2]

\* C15: a returned call whose adapter gave n (start, end) pairs, each with
\* start < end, and n non-zero embeddings emits n segments; one whose adapter
\* gave a 1-D list of n boundary timestamps emits at most n - 1 segments.
C15_SegmentCount ==
    dpc = "returned" =>
        /\ (/\ ClaimProperPairs(wav_splits)
            /\ Len(cont_embeds) = Len(wav_splits.data)
            /\ ~(\E k \in DOMAIN cont_embeds : ClaimAllZero(<<cont_embeds[k]>>)))
           => Len(diar_segments) = Len(wav_splits.data)
        /\ wav_splits.shape = "scalars" /\ wav_splits.data # <<>>
           => Len(diar_segments) <= Len(wav_splits.data) - 1

\* C18: when embed_utterance itself raises, the call ends in the embedding
\* error (ValueError) whose cause is the original failure; it never returns.
C18_EmbedFailureWrapped ==
    (/\ adapter.pre = "ok"
     /\ adapter.embed # "ok"
     /\ dpc \notin {"preprocess", "embed"})
    => (/\ dpc = "raised"
        /\ diar_error.type = "ValueError"
        /\ diar_error.cause = adapter.embed)

\* ------------------------------------------------------------------------
\* Claims about relabeling (checked under SpecRelabel)
\* ------------------------------------------------------------------------
ClaimNoMapping == name_mapping = None \/ DOMAIN name_mapping = {}
ClaimMapped(label) == IF label \in DOMAIN name_mapping THEN name_mapping[label] ELSE label

\* C16: with an empty or absent mapping assign_speaker_names returns the
\* segments unchanged; otherwise it returns a new sequence of the same length
\* and order whose k-th segment has the start and end of the k-th input
\* segment and as speaker mapping[label] if its label is a key, the label
\* itself if not. The input list and its segments are never modified.
C16_Relabel ==
    /\ [](rpc \in {"once", "twice"} =>
            IF ClaimNoMapping
            THEN once.items = in_segments
            ELSE /\ ~once.same_object
                 /\ Len(once.items) = Len(in_segments)
                 /\ \A k \in DOMAIN in_segments :
                      /\ once.items[k].start = in_segments[k].start
                      /\ once.items[k].end = in_segments[k].end
                      /\ once.items[k].speaker = ClaimMapped(in_segments[k].speaker))
    /\ [][in_segments' = in_segments /\ name_mapping' = name_mapping]_vars

C16_Witness ==
    /\ rpc = "once"
    /\ Len(in_segments) = 2
    /\ in_segments[1].speaker \in DOMAIN name_mapping
    /\ in_segments[2].speaker \notin DOMAIN name_mapping
    /\ once.items[1].speaker = John
    /\ once.items[2].speaker = in_segments[2].speaker
    /\ once.items[1].speaker # in_segments[1].speaker

\* C17 as stated: for every mapping, also one whose values are keys, applying
\* it twice gives the same as applying it once on every segment whose original
\* label is a key; with the empty mapping the segments come back as they are.
C17_Original ==
    rpc = "twice" =>
        IF ClaimNoMapping
        THEN once.items = in_segments /\ twice.items = in_segments
        ELSE \A k \in DOMAIN in_segments :
                in_segments[k].speaker \in DOMAIN name_mapping => twice.items[k] = once.items[k]

ClaimSettles(label) ==
    /\ label \in DOMAIN name_mapping
    /\ \/ name_mapping[label] \notin DOMAIN name_mapping
       \/ name_mapping[name_mapping[label]] = name_mapping[label]

\* C17, amended: applying a mapping twice gives the same as applying it once
\* on every segment whose original label is a key whose value is not itself a
\* key mapped to something else; with the empty mapping the segments come back
\* as they are.
C17_IdempotentUnlessChained ==
    rpc = "twice" =>
        IF ClaimNoMapping
        THEN once.items = in_segments /\ twice.items = in_segments
        ELSE \A k \in DOMAIN in_segments :
                ClaimSettles(in_segments[k].speaker) => twice.items[k] = once.items[k]

C17_Witness ==
    /\ rpc = "twice"
    /\ Len(in_segments) = 2
    /\ ClaimSettles(in_segments[1].speaker)
    /\ name_mapping[in_segments[1].speaker] \in DOMAIN name_mapping
    /\ ClaimSettles(in_segments[2].speaker)
    /\ name_mapping[in_segments[2].speaker] \notin DOMAIN name_mapping
    /\ twice.items = once.items
    /\ once.items # in_segments

\* ------------------------------------------------------------------------
\* Claims about both producers (checked under SpecOrder)
\* ------------------------------------------------------------------------
\* C19 as stated: the segments the caption parser returns, for any caption
\* text, and the segments process_audio returns, for any boundary input, are
\* in non-decreasing start order.
C19_Original ==
    /\ ppc = "returned" => StartOrdered(segments)
    /\ dpc = "returned" => StartOrdered(diar_segments)

ClaimLineStart(l) == ParseVttTimestamp(ClaimStripped(l)[1].ts1).val
\* The timestamp lines of the file have non-decreasing starts, top to bottom
ClaimLinesOrdered ==
    \A i, k \in DOMAIN lines :
        (i < k /\ ClaimGoodRange(lines[i]) /\ ClaimGoodRange(lines[k]))
        => ClaimLineStart(lines[i]) <= ClaimLineStart(lines[k])
\* The windows (pairs, or consecutive boundaries) have non-decreasing starts
ClaimWindowsOrdered ==
    \A k \in 1..(Len(wav_splits.data) - 1) : wav_splits.data[k][1] <= wav_splits.data[k + 1][1]

\* C19, amended: neither producer sorts; each emits its segments in the order
\* of its input. The parser's segments are in non-decreasing start order
\* whenever the timestamp lines of the caption text are, and the segments of
\* process_audio whenever the starts of the windows it was given are.
C19_OrderedWhenInputIs ==
    /\ (ppc = "returned" /\ ClaimLinesOrdered) => StartOrdered(segments)
    /\ (dpc \in {"loop", "returned"} /\ ClaimWindowsOrdered) => StartOrdered(diar_segments)

C19_Witness ==
    /\ ppc = "returned"
    /\ ClaimLinesOrdered
    /\ Len(segments) = 2
    /\ segments[1].start < segments[2].start

\* ------------------------------------------------------------------------
\* The speaker cursor of the merger (checked under SpecMerge)
\* ------------------------------------------------------------------------
\* C20: during one merge pass the speaker cursor starts at 0, never decreases
\* and never exceeds the length of the speaker sequence; for each transcript
\* segment t it moves past the speaker segments it finds with end <= t.start
\* and stops at the first one with end > t.start, or at the end.
C20_CursorAdvance ==
    /\ [](/\ speaker_idx \in 0..Len(speaker_segments)
          /\ (mpc = "loop" /\ seg_pos = 0) => speaker_idx = 0)
    /\ [][speaker_idx' >= speaker_idx]_vars
    /\ [][(mpc = "loop" /\ seg_pos < Len(whisper_segments)) =>
            LET t == whisper_segments[seg_pos + 1] IN
            /\ \A k \in (speaker_idx + 1)..speaker_idx' : speaker_segments[k]["end"] <= t["start"]
            /\ speaker_idx' < Len(speaker_segments)
               => speaker_segments[speaker_idx' + 1]["end"] > t["start"]]_vars

C20_Witness ==
    /\ mpc = "returned"
    /\ Len(whisper_segments) = 2
    /\ Len(speaker_segments) = 2
    /\ speaker_idx = 2
    /\ speaker_segments[1]["end"] <= whisper_segments[1]["start"]
    /\ speaker_segments[2]["end"] > whisper_segments[1]["start"]
    /\ speaker_segments[2]["end"] <= whisper_segments[2]["start"]

\* An overlap of positive length between a speaker segment and a transcript
\* segment
ClaimPositiveOverlap(s, t) ==
    /\ s["start"] < s["end"] /\ t["start"] < t["end"]
    /\ s["start"] < t["end"] /\ t["start"] < s["end"]

\* C21: when both inputs are in non-decreasing start order, no speaker segment
\* the cursor has passed overlaps, over a positive length, the transcript
\* segment the cursor was advanced for or any later one.
C21_SkippedNeverOverlap ==
    [][(/\ StartOrdered(whisper_segments) /\ StartOrdered(speaker_segments)
        /\ mpc = "loop" /\ seg_pos < Len(whisper_segments))
       => \A k \in 1..speaker_idx' :
            \A i \in (seg_pos + 1)..Len(whisper_segments) :
                ~ClaimPositiveOverlap(speaker_segments[k], whisper_segments[i])]_vars

C21_Witness ==
    /\ mpc = "returned"
    /\ StartOrdered(whisper_segments) /\ StartOrdered(speaker_segments)
    /\ Len(whisper_segments) = 2 /\ Len(speaker_segments) = 2
    /\ speaker_idx = 1
    /\ ClaimPositiveOverlap(speaker_segments[1], whisper_segments[1])
    /\ ClaimPositiveOverlap(speaker_segments[2], whisper_segments[2])

\* C22: a transcript segment is compared with at most one speaker segment, the
\* one under the cursor after the advance: its speaker is that segment's or
\* none, never the label of a segment further on, also when that one overlaps
\* it by more than half; the comparison leaves the cursor where the advance
\* put it.
C22_OnlyCursorSegment ==
    [][Len(merged') = Len(merged) + 1 =>
        LET t == whisper_segments[seg_pos + 1]
            j == speaker_idx'
            out == merged'[Len(merged')]
        IN  /\ out.speaker \in
                {None} \cup {speaker_segments[k].speaker : k \in {j + 1} \cap DOMAIN speaker_segments}
            /\ \A k \in (j + 2)..Len(speaker_segments) : out.speaker # speaker_segments[k].speaker
            /\ \A k \in (speaker_idx + 1)..j : speaker_segments[k]["end"] <= t["start"]
            /\ j < Len(speaker_segments) => speaker_segments[j + 1]["end"] > t["start"]]_vars

C22_Witness ==
    /\ mpc = "returned"
    /\ Len(whisper_segments) = 1
    /\ Len(speaker_segments) = 2
    /\ speaker_idx = 0
    /\ ~ClaimMoreThanHalf(whisper_segments[1], speaker_segments[1])
    /\ ClaimMoreThanHalf(whisper_segments[1], speaker_segments[2])
    /\ merged[1].speaker = None

\* ------------------------------------------------------------------------
\* More claims about the diarizer (checked under SpecDiar)
\* ------------------------------------------------------------------------
\* C23: one call makes at most two clustering attempts, the first with the
\* cosine metric, the second, if any, with the Euclidean metric and only
\* after the cosine attempt has failed; attempts are never taken back; when
\* both fail the call ends with the failure of the second and no segments.
C23_AtMostTwoAttempts ==
    /\ [](/\ Len(attempts) <= 2
          /\ Len(attempts) >= 1 => attempts[1].metric = "cosine"
          /\ Len(attempts) = 2 =>
                /\ attempts[2].metric = "euclidean"
                /\ attempts[1].outcome # "ok"
                /\ attempts[2].outcome # "ok" =>
                    /\ dpc = "raised"
                    /\ diar_error.at = "euclidean"
                    /\ diar_error.type = attempts[2].outcome
                    /\ diar_segments = <<>>
          /\ dpc = "cosine" => attempts = <<>>
          /\ dpc = "euclidean" => Len(attempts) = 1)
    /\ [][/\ Len(attempts') >= Len(attempts)
          /\ \A k \in DOMAIN attempts : attempts'[k] = attempts[k]]_vars

C23_Witness ==
    /\ dpc = "raised"
    /\ Len(valid_embeds) = 3
    /\ Len(attempts) = 2
    /\ attempts[1].outcome = "ValueError"
    /\ attempts[2].outcome = "OtherError"

\* The intervals the boundary input holds: one per pair, or one per pair of
\* consecutive boundary timestamps
ClaimAvailableIntervals ==
    IF wav_splits.shape = "pairs" THEN Len(wav_splits.data)
    ELSE IF Len(wav_splits.data) > 0 THEN Len(wav_splits.data) - 1 ELSE 0
ClaimEffectiveCount ==
    IF Len(labels_) <= ClaimAvailableIntervals THEN Len(labels_) ELSE ClaimAvailableIntervals
\* The interval of window i (0-based)
ClaimInterval(i) ==
    IF wav_splits.shape = "pairs"
    THEN <<wav_splits.data[i + 1][1], wav_splits.data[i + 1][2]>>
    ELSE <<wav_splits.data[i + 1][1], wav_splits.data[i + 2][1]>>
\* The intervals of the windows 0..n-1 that have start < end, in index order
ClaimProper(i) == ClaimInterval(i)[1] < ClaimInterval(i)[2]
ClaimEmitted(n) ==
    LET kept == SelectSeq([k \in 1..n |-> k - 1], ClaimProper)
    IN  [k \in DOMAIN kept |-> ClaimInterval(kept[k])]

\* C24: a call that returns has walked the window indices 0..effective_count-1,
\* effective_count the smaller of the number of cluster labels and the number
\* of available intervals; the indices whose interval has start >= end are
\* skipped, the intervals of all the others are emitted in index order, and
\* the result is no longer than effective_count.
C24_WalksEffectiveCount ==
    (dpc = "returned" /\ labels_ # <<>>) =>
        /\ win_i = ClaimEffectiveCount
        /\ Len(diar_segments) <= ClaimEffectiveCount
        /\ [k \in DOMAIN diar_segments |-> <<diar_segments[k].start, diar_segments[k].end>>]
            = ClaimEmitted(ClaimEffectiveCount)

\* The number of embeddings among the first n that are not all-zero
ClaimValidUpTo(n) == Cardinality({k \in 1..n : ~ClaimAllZero(<<cont_embeds[k]>>)})

\* C26: the label of the segment built from window i is the cluster label of
\* window i's own embedding, also when all-zero embeddings of other windows
\* were discarded before clustering.
C26_LabelOfOwnEmbedding ==
    [][(dpc = "loop" /\ Len(diar_segments') = Len(diar_segments) + 1
        /\ win_i + 1 <= Len(cont_embeds) /\ ~ClaimAllZero(<<cont_embeds[win_i + 1]>>))
       => ClaimDigitsValue(diar_segments'[Len(diar_segments')].speaker[2])
            = labels_[ClaimValidUpTo(win_i + 1)]]_vars

\* ------------------------------------------------------------------------
\* Timestamp lines inside a caption block (checked under SpecParse)
\* ------------------------------------------------------------------------
\* C28: in read_text a line that matches the timestamp pattern is appended to
\* the pending text and starts no segment; the parser leaves read_text only on
\* a blank line; a file of two caption blocks with no blank line between them
\* gives one segment with the first block's times and all later lines as text.
C28_TimestampLineIsText ==
    /\ [][(ppc = "loop" /\ line_num < Len(lines) /\ state = "read_text"
           /\ ClaimTimestampLine(NextLine))
          => (/\ text_buffer' = Append(text_buffer, ClaimStripped(NextLine))
              /\ state' = "read_text"
              /\ current_segment' = current_segment
              /\ segments' = segments
              /\ ppc' = "loop")]_vars
    /\ [][(state = "read_text" /\ state' = "find_timestamp") => ClaimBlank(NextLine)]_vars
    /\ []((/\ ppc = "returned"
           /\ Len(lines) = 4
           /\ ClaimGoodRange(lines[1])
           /\ ~ClaimBlank(lines[2])
           /\ ClaimTimestampLine(lines[3])
           /\ ~ClaimBlank(lines[4]))
          => segments = <<ClaimSegment(1, 5)>>)

C28_Witness ==
    /\ ppc = "returned"
    /\ Len(lines) = 4
    /\ ClaimGoodRange(lines[1])
    /\ ~ClaimBlank(lines[2]) /\ ~ClaimTimestampLine(lines[2])
    /\ ClaimGoodRange(lines[3])
    /\ lines[3] # lines[1]
    /\ ~ClaimBlank(lines[4])
    /\ Len(segments) = 1
    /\ Len(text_buffer) = 3

\* ------------------------------------------------------------------------
\* The timestamp parser (checked under SpecStamp)
\* ------------------------------------------------------------------------
\* A part that is one group of digits, and a seconds part SS.mmm
ClaimPlain(part) == Len(part) = 1
ClaimDotted(part) == Len(part) = 2
ClaimField(part, k) == ClaimDigitsValue(part[k])

\* C25: for HH:MM:SS.mmm the parser returns H*3600 + M*60 + S + ms/1000
\* seconds, for MM:SS.mmm it returns M*60 + S + ms/1000, and for any other
\* number of colon-separated parts it fails with ValueError. (In milliseconds.)
C25_TimestampValue ==
    tpc = "done" =>
        /\ (Len(ts_str) = 3 /\ ClaimPlain(ts_str[1]) /\ ClaimPlain(ts_str[2]) /\ ClaimDotted(ts_str[3]))
           => (/\ ts_result.ok
               /\ ts_result.val = ClaimField(ts_str[1], 1) * 3600000 + ClaimField(ts_str[2], 1) * 60000
                                  + ClaimField(ts_str[3], 1) * 1000 + ClaimField(ts_str[3], 2))
        /\ (Len(ts_str) = 2 /\ ClaimPlain(ts_str[1]) /\ ClaimDotted(ts_str[2]))
           => (/\ ts_result.ok
               /\ ts_result.val = ClaimField(ts_str[1], 1) * 60000
                                  + ClaimField(ts_str[2], 1) * 1000 + ClaimField(ts_str[2], 2))
        /\ Len(ts_str) \notin {2, 3} => ~ts_result.ok

C25_Witness ==
    /\ tpc = "done"
    /\ Len(ts_str) = 3
    /\ ts_result.ok
    /\ ts_result.val = 3600000 + 59 * 60000 + 59 * 1000 + 999

\* ------------------------------------------------------------------------
\* The AudioProcessor's stored state (checked under SpecProc)
\* ------------------------------------------------------------------------
\* C27: after any sequence of load_audio calls, the segments that
\* get_speaker_segments returns come from the same file as the audio stored
\* in the instance.
C27_SegmentsOfStoredAudio ==
    /\ _speaker_segments # None =>
        /\ _audio # None
        /\ _speaker_segments[2] = _audio[2]
    /\ (got # <<>> /\ got.raised = "none" /\ got.value = _speaker_segments) =>
        got.value[2] = _audio[2]


\* ------------------------------------------------------------------------
\* Claims about the GUI (checked under SpecGui and SpecGuiFair)
\* ------------------------------------------------------------------------
\* Workers that exist: started and not yet returned
ClaimExisting == {t \in DOMAIN threads : threads[t].pc # "done"}
\* Workers that have not yet cleared active_thread (main_gui.py:133)
ClaimWorking == {t \in DOMAIN threads : threads[t].pc \in {"validate", "transcribe", "finally"}}
\* start_transcription starts a thread in this step
ClaimStarts == Len(threads') > Len(threads)

\* C29 as stated: at most one worker thread exists at any time, and
\* start_transcription starts no new thread while active_thread is set.
C29_Original ==
    /\ [](Cardinality(ClaimExisting) <= 1)
    /\ [][ClaimStarts => active_thread = None]_vars

\* C29 amended: at most one worker thread that has not yet cleared
\* active_thread exists at any time, and it is the one active_thread names;
\* start_transcription starts no new thread while active_thread is set. A
\* worker that has cleared active_thread and has not yet returned can exist
\* next to a newly started one.
C29_OneWorkingThread ==
    /\ [](/\ Cardinality(ClaimWorking) <= 1
          /\ \A t \in ClaimWorking : active_thread = <<t>>
          /\ active_thread # None => active_thread[1] \in ClaimWorking)
    /\ [][ClaimStarts => active_thread = None /\ ClaimWorking = {}]_vars

\* A second worker runs while the first has cleared active_thread and has
\* not yet handed over the re-enabling of the button
C29_Witness ==
    /\ Len(threads) = 2
    /\ threads[1].pc = "schedule"
    /\ threads[2].pc = "transcribe"
    /\ active_thread = <<2>>

\* The button re-enabling of worker t is waiting in the event loop
ClaimEnablePending(t) ==
    \E i \in DOMAIN after_queue : after_queue[i] = EnableCallback(t)
\* Worker t was started and its button re-enabling has not yet run
ClaimUnreleased(t) ==
    /\ t \in DOMAIN threads
    /\ threads[t].pc # "done" \/ ClaimEnablePending(t)
\* Worker t has returned, does not own active_thread, and the button has
\* been re-enabled by its callback
ClaimReleased(t) ==
    /\ t \in DOMAIN threads
    /\ threads[t].pc = "done"
    /\ active_thread # <<t>>
    /\ ~ClaimEnablePending(t)
    /\ transcribe_btn = "normal"

\* C30: whether a worker succeeds or fails, it clears active_thread and the
\* Transcribe button is re-enabled; a worker that has cleared active_thread
\* never owns it again, and from then on its button re-enabling is on its way.
C30_WorkerReleases ==
    /\ \A t \in 1..MaxStarts : ClaimUnreleased(t) ~> ClaimReleased(t)
    /\ [](\A t \in DOMAIN threads :
            threads[t].pc \in {"schedule", "done"} => active_thread # <<t>>)
    /\ [](\A t \in DOMAIN threads :
            threads[t].outcome # "none" => threads[t].pc # "transcribe")

\* A worker that failed has released the GUI and the next start was accepted
C30_Witness ==
    /\ Len(threads) = 2
    /\ threads[1].outcome = "failed"
    /\ ClaimReleased(1)
    /\ threads[2].pc = "validate"

====
